---------------------------- MODULE Spec2Model ----------------------------
(***************************************************************************)
(* BlackRoad Archive snapshot-service.                                     *)
(*                                                                         *)
(* Two persistent stores are modelled from their Python sources:           *)
(*   - the version catalog  (src/src/catalog.py): table `versions`,        *)
(*     operations record_deploy, get_latest, rollback;                     *)
(*   - the audit ledger     (src/src/auditor.py): tables `snapshots` and   *)
(*     `audit_log`, operations register, verify, report.                   *)
(* Each store has its own specification (SpecCatalog, SpecAuditor); the    *)
(* variables of the other store stay at their initial value.               *)
(***************************************************************************)
EXTENDS Integers, Sequences, FiniteSets, TLC

VARIABLES
    versions,        \* catalog.py: rows of table versions (a set of records)
    seq,             \* catalog.py: sqlite_sequence of versions (AUTOINCREMENT)
    now,             \* the wall clock read by datetime('now'), in whole seconds
    superseded_by,   \* history: row id -> id of the deploy that last superseded it (0: none)
    rolled_back,     \* history: pairs rolled back with no deploy of the pair since
    snapshots,       \* auditor.py: rows of table snapshots (a set of records)
    audit_log,       \* auditor.py: rows of table audit_log, in id order
    ncalls,          \* number of auditor calls made so far
    pc,              \* catalog.py: where a record_deploy in progress stands
    txn,             \* catalog.py: the connection's open transaction (uncommitted)
    files,           \* the file system: path -> regular file, or Absent
    dirs,            \* the file system: the directories that exist
    manifest_file,   \* snapshot.py: the manifest save_snapshot wrote last
    built,           \* history: the file system when that manifest was built
    fs_ops,          \* number of changes made to the file system so far
    home,            \* src/src/snapshot.py: the files collect_files can find
    archive_dir,     \* src/src/snapshot.py: the files in ARCHIVE_DIR
    pkg,             \* src/src/snapshot.py: where a create_snapshot in progress stands
    edits,           \* number of changes another process made to home so far
    nsnaps,          \* number of create_snapshot calls started so far
    call,            \* the last call made: its name and arguments
    ret              \* what the last call returned

vars == <<versions, seq, now, superseded_by, rolled_back,
          snapshots, audit_log, ncalls, pc, txn,
          files, dirs, manifest_file, built, fs_ops,
          home, archive_dir, pkg, edits, nsnaps, call, ret>>

catalogVars == <<versions, seq, now, superseded_by, rolled_back>>
auditorVars == <<snapshots, audit_log, ncalls>>
txnVars == <<pc, txn>>
dirVars == <<files, dirs, manifest_file, built, fs_ops>>
pkgVars == <<home, archive_dir, pkg, edits, nsnaps>>
nonCatalogVars == <<auditorVars, txnVars, dirVars, pkgVars>>
nonAuditorVars == <<catalogVars, txnVars, dirVars, pkgVars>>
nonDirVars == <<catalogVars, auditorVars, txnVars, pkgVars>>
nonPkgVars == <<catalogVars, auditorVars, txnVars, dirVars>>

(***************************************************************************)
(* Bounds of the model.                                                    *)
(***************************************************************************)
MaxDeploys == 3      \* record_deploy calls in one behaviour
MaxClock == 2        \* seconds the clock may advance
MaxCalls == 4        \* register / verify calls in one behaviour
MaxFsOps == 2        \* changes made to the file system in one behaviour
MaxEdits == 1        \* changes another process makes to home in one behaviour
MaxSnaps == 2        \* create_snapshot calls in one behaviour

Services == {"x", "y"}
Versions == {"1.0", "1.1", "1.2"}
Environments == {"production"}

(***************************************************************************)
(* Python values.                                                          *)
(***************************************************************************)
None == [type |-> "None"]
PyInt(n) == [type |-> "int", value |-> n]
PyBool(b) == [type |-> "bool", value |-> b]
NoCall == [op |-> "none"]
NoTxn == [open |-> FALSE]
Raise(exc) == [type |-> "raise", exc |-> exc]

(***************************************************************************)
(* The file system the snapshot tools read.  A path is the sequence of its *)
(* parts (pathlib's Path.parts).                                           *)
(***************************************************************************)
Absent == [present |-> FALSE]
File(content, readable) ==
    [present |-> TRUE, content |-> content, readable |-> readable]
NoManifest == [type |-> "None"]

\* The paths of regular files, in the order sorted() gives Path objects.
SortedPaths ==
    << <<"repo", ".git", "HEAD">>,
       <<"repo", "a.txt">>,
       <<"repo", "b", "c.txt">>,
       <<"repo", "b", "d", "n.txt">> >>
FilePaths == { SortedPaths[i] : i \in 1..Len(SortedPaths) }
Directories ==
    { <<"repo">>, <<"repo", ".git">>, <<"repo", "b">>, <<"repo", "b", "d">> }
Contents == {"hello", "world", "0123456789"}

\* The file system at the start: nothing there, or a small working tree.
EmptyTree == [ p \in FilePaths |-> Absent ]
SampleTree ==
    [ p \in FilePaths |->
        CASE p = <<"repo", ".git", "HEAD">> -> File("world", TRUE)
          [] p = <<"repo", "a.txt">> -> File("hello", TRUE)
          [] p = <<"repo", "b", "c.txt">> -> File("0123456789", TRUE)
          [] OTHER -> Absent ]
SampleDirs == { <<"repo">>, <<"repo", ".git">>, <<"repo", "b">> }

\* The values of the variables of a component that is not running.
TxnIdle == pc = "idle" /\ txn = NoTxn
DirIdle ==
    /\ files = EmptyTree
    /\ dirs = {}
    /\ manifest_file = NoManifest
    /\ built = NoManifest
    /\ fs_ops = 0

\* The files under ~/.blackroad that the include patterns match, as paths
\* relative to the home directory, in sorted order.
PkgSortedPaths == << <<".blackroad", "config.json">>, <<".blackroad", "data.db">> >>
PkgPaths == { PkgSortedPaths[i] : i \in 1..Len(PkgSortedPaths) }
Labels == {"manual"}
EmptyHome == [ p \in PkgPaths |-> Absent ]
SampleHome ==
    [ p \in PkgPaths |->
        IF p = <<".blackroad", "config.json">> THEN File("hello", TRUE)
                                               ELSE File("0123456789", TRUE) ]
NotRunning == [pc |-> "idle"]
PkgIdle ==
    /\ home = EmptyHome
    /\ archive_dir = {}
    /\ pkg = NotRunning
    /\ edits = 0
    /\ nsnaps = 0

(***************************************************************************)
(* catalog.py                                                              *)
(***************************************************************************)

\* get_db: CREATE TABLE IF NOT EXISTS versions (...): the empty table, and the
\* AUTOINCREMENT counter that has handed out no id yet.
get_db_versions == {}
get_db_seq == 0

\* The column defaults of a row inserted by record_deploy: status 'active',
\* deployed_at datetime('now') (one-second resolution), a fresh AUTOINCREMENT
\* id.  commit_sha and changelog are stored and never read; they are left out.
NewRow(id, service, version, environment, at) ==
    [id |-> id, service |-> service, version |-> version,
     environment |-> environment, deployed_at |-> at,
     deployed_by |-> "blackroad-ci", status |-> "active"]

\* Mutants of SupersedeActive: the UPDATE left out; the UPDATE writing the
\* wrong status.
SupersedeActive_Skipped(rows, service, environment) == rows

SupersedeActive_RolledBack(rows, service, environment) ==
    { IF r.service = service /\ r.environment = environment /\ r.status = "active"
        THEN [r EXCEPT !.status = "rolled-back"]
        ELSE r : r \in rows }

\* UPDATE versions SET status='superseded'
\*   WHERE service=? AND environment=? AND status='active'
SupersedeActive(rows, service, environment) ==
    { IF r.service = service /\ r.environment = environment /\ r.status = "active"
        THEN [r EXCEPT !.status = "superseded"]
        ELSE r : r \in rows }

\* INSERT OR REPLACE: the row that conflicts on UNIQUE(service, version,
\* environment) is deleted before the new row is inserted.
ReplaceConflict(rows, service, version, environment) ==
    { r \in rows : ~(r.service = service /\ r.version = version
                     /\ r.environment = environment) }

\* Mutant of LatestWithStatus: the status filter left out of the WHERE clause.
LatestWithStatus_AnyStatus(rows, service, environment, status) ==
    LET match == { r \in rows : /\ r.service = service
                                /\ r.environment = environment }
    IN  { r \in match : \A q \in match : q.deployed_at <= r.deployed_at }

\* SELECT ... WHERE service=? AND environment=? AND status=?
\*   ORDER BY deployed_at DESC LIMIT 1
\* The rows the query may return: SQL leaves the order of rows with equal
\* deployed_at open, so every row with the greatest deployed_at is a candidate.
LatestWithStatus(rows, service, environment, status) ==
    LET match == { r \in rows : /\ r.service = service
                                /\ r.environment = environment
                                /\ r.status = status }
    IN  { r \in match : \A q \in match : q.deployed_at <= r.deployed_at }

\* get_latest's result set: the row, or None when no row matches.
LatestResults(rows, service, environment) ==
    IF LatestWithStatus(rows, service, environment, "active") = {}
    THEN {None}
    ELSE LatestWithStatus(rows, service, environment, "active")

\* UPDATE versions SET status=? WHERE id=?
SetStatus(rows, id, status) ==
    { IF r.id = id THEN [r EXCEPT !.status = status] ELSE r : r \in rows }

record_deploy(service, version, environment) ==
    /\ seq < MaxDeploys
    /\ LET superseded == SupersedeActive(versions, service, environment)
           kept == ReplaceConflict(superseded, service, version, environment)
           id == seq + 1
           hit == { r.id : r \in { q \in versions : /\ q.service = service
                                                    /\ q.environment = environment
                                                    /\ q.status = "active" } }
       IN  /\ versions' = kept \cup {NewRow(id, service, version, environment, now)}
           /\ seq' = id
           /\ superseded_by' =
                [ i \in 1..MaxDeploys |->
                    IF i \in { r.id : r \in kept }
                    THEN (IF i \in hit THEN id ELSE superseded_by[i])
                    ELSE 0 ]
           /\ ret' = PyInt(id)
    /\ rolled_back' = rolled_back \ {<<service, environment>>}
    /\ call' = [op |-> "record_deploy", service |-> service,
                version |-> version, environment |-> environment]
    /\ UNCHANGED <<now, nonCatalogVars>>

get_latest(service, environment) ==
    /\ ret' \in LatestResults(versions, service, environment)
    /\ call' = [op |-> "get_latest", service |-> service,
                environment |-> environment]
    /\ UNCHANGED <<catalogVars, nonCatalogVars>>

rollback(service, environment) ==
    /\ call' = [op |-> "rollback", service |-> service,
                environment |-> environment]
    /\ \E current \in LatestResults(versions, service, environment) :
         IF current = None
         THEN /\ ret' = None
              /\ UNCHANGED <<catalogVars, nonCatalogVars>>
         ELSE LET prevs == LatestWithStatus(versions, service, environment,
                                            "superseded")
              IN  IF prevs = {}
                  THEN /\ ret' = None
                       /\ UNCHANGED <<catalogVars, nonCatalogVars>>
                  ELSE \E prev \in prevs :
                         /\ versions' = SetStatus(SetStatus(versions, prev.id, "active"),
                                                  current.id, "rolled-back")
                         /\ ret' = prev
                         /\ rolled_back' = rolled_back \cup {<<service, environment>>}
                         /\ UNCHANGED <<seq, now, superseded_by, nonCatalogVars>>

\* A second passes: datetime('now') reads the next value.
Tick ==
    /\ now < MaxClock
    /\ now' = now + 1
    /\ UNCHANGED <<versions, seq, superseded_by, rolled_back, nonCatalogVars, call, ret>>

InitCatalog ==
    /\ versions = get_db_versions
    /\ seq = get_db_seq
    /\ now = 0
    /\ superseded_by = [ i \in 1..MaxDeploys |-> 0 ]
    /\ rolled_back = {}
    /\ snapshots = {}
    /\ audit_log = << >>
    /\ ncalls = 0
    /\ TxnIdle
    /\ DirIdle
    /\ PkgIdle
    /\ call = NoCall
    /\ ret = None

NextCatalog ==
    \/ \E s \in Services, v \in Versions, e \in Environments : record_deploy(s, v, e)
    \/ \E s \in Services, e \in Environments : get_latest(s, e)
    \/ \E s \in Services, e \in Environments : rollback(s, e)
    \/ Tick

SpecCatalog == InitCatalog /\ [][NextCatalog]_vars

(***************************************************************************)
(* Claims about the version catalog.                                       *)
(***************************************************************************)
RowsOf(rows, service, environment, status) ==
    { r \in rows : /\ r.service = service
                   /\ r.environment = environment
                   /\ r.status = status }

\* C1: after any sequence of record_deploy and rollback calls, every
\* (service, environment) pair has at most one row with status 'active'.
C1_AtMostOneActive ==
    \A s \in Services, e \in Environments :
        Cardinality(RowsOf(versions, s, e, "active")) <= 1

\* A rollback has succeeded on a pair that still has exactly one active row,
\* next to a rolled-back one.
C1_Witness ==
    /\ call.op = "rollback"
    /\ ret # None
    /\ Cardinality(RowsOf(versions, call.service, call.environment, "active")) = 1
    /\ RowsOf(versions, call.service, call.environment, "rolled-back") # {}

\* C2: a rollback of a pair that was rolled back successfully, with no
\* record_deploy of the pair since, returns None and changes no row.
C2_SecondRollbackFails ==
    [][\A s \in Services, e \in Environments :
         (<<s, e>> \in rolled_back /\ rollback(s, e))
            => (ret' = None /\ versions' = versions)]_vars

\* C3: right after record_deploy(service, version, environment) exactly one
\* row of the pair is active, it carries the deployed version, get_latest
\* returns it, and the row that was active before, if of another version, is
\* now superseded.
C3_DeployPost ==
    [][\A s \in Services, v \in Versions, e \in Environments :
         record_deploy(s, v, e) =>
            LET act == RowsOf(versions', s, e, "active")
            IN  /\ Cardinality(act) = 1
                /\ \A r \in act : r.version = v /\ PyInt(r.id) = ret'
                /\ LatestResults(versions', s, e) = act
                /\ \A r \in RowsOf(versions, s, e, "active") :
                     r.version # v =>
                        [r EXCEPT !.status = "superseded"] \in versions']_vars

\* A deploy has just superseded the row of another version.
C3_Witness ==
    /\ call.op = "record_deploy"
    /\ ret = PyInt(seq)
    /\ \E r \in RowsOf(versions, call.service, call.environment, "superseded") :
         r.version # call.version /\ superseded_by[r.id] = seq

\* The superseded rows of a pair that were superseded last.
MostRecentlySuperseded(rows, service, environment) ==
    LET sup == RowsOf(rows, service, environment, "superseded")
    IN  { r \in sup : \A q \in sup : superseded_by[q.id] <= superseded_by[r.id] }

\* C4: a successful rollback makes the most recently superseded row of the
\* pair active and the formerly active row rolled-back, and changes nothing
\* else.
C4_RollbackRestoresMostRecent ==
    [][\A s \in Services, e \in Environments :
         (rollback(s, e) /\ ret' # None) =>
            \E prev \in MostRecentlySuperseded(versions, s, e) :
              \E current \in RowsOf(versions, s, e, "active") :
                versions' = (versions \ {prev, current})
                              \cup {[prev EXCEPT !.status = "active"],
                                    [current EXCEPT !.status = "rolled-back"]}]_vars

\* C5: no record_deploy or rollback removes a row: every row is still there
\* after the call, under the same id.
C5_NoRowRemoved ==
    [][\A r \in versions :
         \E q \in versions' : /\ q.id = r.id
                              /\ q.service = r.service
                              /\ q.version = r.version
                              /\ q.environment = r.environment]_vars

\* C6: rollback of a pair with no active row, or with an active row and no
\* superseded one, returns None and leaves the catalog unchanged.
C6_RollbackWithoutHistory ==
    [][\A s \in Services, e \in Environments :
         ( /\ rollback(s, e)
           /\ \/ RowsOf(versions, s, e, "active") = {}
              \/ RowsOf(versions, s, e, "superseded") = {} )
            => (ret' = None /\ versions' = versions /\ seq' = seq)]_vars

\* A rollback was refused on a pair that has an active row and no superseded one.
C6_Witness ==
    /\ call.op = "rollback"
    /\ ret = None
    /\ RowsOf(versions, call.service, call.environment, "active") # {}
    /\ RowsOf(versions, call.service, call.environment, "superseded") = {}

\* C19: the record a successful rollback returns is the record get_latest
\* returns right afterwards: same id, same version, status 'active'.
C19_RollbackReturnsLatest ==
    [][\A s \in Services, e \in Environments :
         (rollback(s, e) /\ ret' # None) =>
            \A latest \in LatestResults(versions', s, e) :
              /\ latest # None
              /\ ret'.id = latest.id
              /\ ret'.version = latest.version
              /\ ret'.status = "active"]_vars

(***************************************************************************)
(* catalog.py, record_deploy statement by statement.  The connection is    *)
(* opened by sqlite3.connect(DB_PATH) with the default isolation level:    *)
(* sqlite3 opens a transaction before the first INSERT/UPDATE/DELETE/      *)
(* REPLACE statement and keeps it open until db.commit().  A process that  *)
(* dies before the commit leaves the database file as the last commit      *)
(* wrote it.                                                               *)
(***************************************************************************)

\* Mutant of Durable: a connection in autocommit mode, where every statement
\* is written through to the file.
Durable_Autocommit(file, written) == written

\* What the database file holds after a statement has run inside the open
\* transaction: the last committed content.
Durable(file, written) == file

InProgress == pc \in {"updated", "inserted"}

\* record_deploy up to and including its UPDATE.
deploy_update(service, version, environment) ==
    /\ ~InProgress
    /\ seq < MaxDeploys
    /\ LET rows == SupersedeActive(versions, service, environment)
       IN  /\ txn' = [open |-> TRUE, journal |-> versions, journal_seq |-> seq,
                      rows |-> rows, seq |-> seq, service |-> service,
                      version |-> version, environment |-> environment]
           /\ versions' = Durable(versions, rows)
    /\ pc' = "updated"
    /\ call' = [op |-> "record_deploy", service |-> service,
                version |-> version, environment |-> environment]
    /\ UNCHANGED <<seq, now, superseded_by, rolled_back, auditorVars, dirVars, pkgVars, ret>>

\* record_deploy's INSERT OR REPLACE.
deploy_insert ==
    /\ pc = "updated"
    /\ LET kept == ReplaceConflict(txn.rows, txn.service, txn.version,
                                   txn.environment)
           id == txn.seq + 1
           rows == kept \cup {NewRow(id, txn.service, txn.version,
                                     txn.environment, now)}
       IN  /\ txn' = [txn EXCEPT !.rows = rows, !.seq = id]
           /\ versions' = Durable(versions, rows)
           /\ seq' = Durable(seq, id)
    /\ pc' = "inserted"
    /\ UNCHANGED <<now, superseded_by, rolled_back, auditorVars, dirVars, pkgVars, call, ret>>

\* db.commit() and the return of cursor.lastrowid.
deploy_commit ==
    /\ pc = "inserted"
    /\ versions' = txn.rows
    /\ seq' = txn.seq
    /\ superseded_by' =
         [ i \in 1..MaxDeploys |->
             IF i \in { r.id : r \in txn.rows } /\ i # txn.seq
             THEN (IF i \in { r.id : r \in RowsOf(txn.journal, txn.service,
                                                  txn.environment, "active") }
                   THEN txn.seq ELSE superseded_by[i])
             ELSE 0 ]
    /\ rolled_back' = rolled_back \ {<<txn.service, txn.environment>>}
    /\ txn' = NoTxn
    /\ pc' = "idle"
    /\ ret' = PyInt(txn.seq)
    /\ UNCHANGED <<now, auditorVars, dirVars, pkgVars, call>>

\* The process dies inside record_deploy: the open transaction is lost.
crash ==
    /\ InProgress
    /\ pc' = (IF pc = "updated" THEN "crashed_after_update"
                                ELSE "crashed_after_insert")
    /\ txn' = NoTxn
    /\ UNCHANGED <<catalogVars, auditorVars, dirVars, pkgVars, call, ret>>

NextCatalogCrash ==
    \/ \E s \in Services, v \in Versions, e \in Environments : deploy_update(s, v, e)
    \/ deploy_insert
    \/ deploy_commit
    \/ crash
    \/ \E s \in Services, e \in Environments : ~InProgress /\ rollback(s, e)

SpecCatalogCrash == InitCatalog /\ [][NextCatalogCrash]_vars

\* C18: record_deploy's UPDATE and INSERT are separate durable writes, so a
\* crash between them leaves the formerly active row 'superseded' and the
\* pair with no 'active' row.
C18_CrashLeavesNoActive ==
    [][(crash /\ pc = "updated") =>
         /\ \A r \in RowsOf(txn.journal, txn.service, txn.environment, "active") :
              [r EXCEPT !.status = "superseded"] \in versions'
         /\ RowsOf(versions', txn.service, txn.environment, "active") = {}]_vars

\* C18, amended: the UPDATE and the INSERT run in one transaction; a crash
\* before the commit leaves the catalog as it was before the call.
C18_CrashLeavesCatalogUnchanged ==
    [][crash => (versions' = txn.journal /\ seq' = txn.journal_seq)]_vars

\* record_deploy died after its UPDATE, and the pair still has its active row.
C18_Witness ==
    /\ pc = "crashed_after_update"
    /\ RowsOf(versions, call.service, call.environment, "active") # {}

(***************************************************************************)
(* auditor.py                                                              *)
(***************************************************************************)
SnapshotIds == {"snap-001", "snap-002"}
Data == {"sample", "tampered"}

\* hashlib.sha256(data).hexdigest(): lower-case hex of the digest.
Sha256Hex(data) ==
    CASE data = "sample" ->
           "af2bdbe1aa9b6ec1e2ade1d694f41fc71a831d0268e9891562113d8a62add1bf"
      [] data = "tampered" ->
           "d121be3103007b41edf96f8262925f8c7d61894afe9a041843b631f69445bc57"
      [] data = "hello" ->
           "2cf24dba5fb0a30e26e83b2ac5b9e29e1b161e5c1fa7425e73043362938b9824"
      [] data = "world" ->
           "486ea46224d1bb4fb680f34f7c9ad96a8f24ec88be73ea8e5a6c65260e9cb8a7"
      [] data = "0123456789" ->
           "84d89877f0d4041efb6bf91a16f0248f2fd573e6af05c19f96bedb9f882f7882"

\* The sha256 strings a caller declares at registration: the digest of the
\* archived bytes, or the same digest written in upper case.
DeclaredDigests ==
    { Sha256Hex("sample"),
      "AF2BDBE1AA9B6EC1E2ADE1D694F41FC71A831D0268E9891562113D8A62ADD1BF" }

\* Snapshot (dataclass): id, sha256 and verified (default False).  repo,
\* version, size_bytes, tags and archived_at are stored and never read by
\* register or verify; they are left out.
Snapshot(id, sha256, verified) ==
    [id |-> id, sha256 |-> sha256, verified |-> verified]

\* A Python bool bound to an INTEGER column, and int(ok).
BoolToInt(b) == IF b THEN 1 ELSE 0

\* init_db: CREATE TABLE IF NOT EXISTS snapshots / audit_log: both empty.
init_db_snapshots == {}
init_db_audit_log == << >>

\* Mutant of SelectById: the WHERE clause left out.
SelectById_AnyRow(rows, id) == rows

\* SELECT * FROM snapshots WHERE id=?
SelectById(rows, id) == { r \in rows : r.id = id }

\* INSERT OR REPLACE INTO snapshots VALUES (...): id is the PRIMARY KEY.
UpsertSnapshot(rows, snap) ==
    { r \in rows : r.id # snap.id }
        \cup {[id |-> snap.id, sha256 |-> snap.sha256,
               verified |-> BoolToInt(snap.verified)]}

\* UPDATE snapshots SET verified=? WHERE id=?
SetVerified(rows, id, v) ==
    { IF r.id = id THEN [r EXCEPT !.verified = v] ELSE r : r \in rows }

\* Mutant of _log: the entry overwrites the newest row instead of adding one.
_log_Overwrite(log, sid, action, result) ==
    IF log = << >>
    THEN << [id |-> 1, snapshot_id |-> sid, action |-> action, result |-> result] >>
    ELSE [log EXCEPT ![Len(log)] =
            [id |-> Len(log), snapshot_id |-> sid, action |-> action,
             result |-> result]]

\* _log: INSERT INTO audit_log (snapshot_id, action, result, at); id is
\* AUTOINCREMENT.  The timestamp `at` is written and never read; left out.
_log(log, sid, action, result) ==
    Append(log, [id |-> Len(log) + 1, snapshot_id |-> sid,
                 action |-> action, result |-> result])

register(snap) ==
    /\ ncalls < MaxCalls
    /\ ncalls' = ncalls + 1
    /\ snapshots' = UpsertSnapshot(snapshots, snap)
    /\ audit_log' = _log(audit_log, snap.id, "register", "ok")
    /\ call' = [op |-> "register", snap |-> snap]
    /\ ret' = None
    /\ UNCHANGED nonAuditorVars

verify(snapshot_id, data) ==
    /\ ncalls < MaxCalls
    /\ ncalls' = ncalls + 1
    /\ call' = [op |-> "verify", snapshot_id |-> snapshot_id, data |-> data]
    /\ IF SelectById(snapshots, snapshot_id) = {}
       THEN /\ ret' = PyBool(FALSE)
            /\ UNCHANGED <<snapshots, audit_log>>
       ELSE \E row \in SelectById(snapshots, snapshot_id) :
              LET computed == Sha256Hex(data)
                  ok == computed = row.sha256
              IN  /\ snapshots' = SetVerified(snapshots, snapshot_id, BoolToInt(ok))
                  /\ audit_log' = _log(audit_log, snapshot_id, "verify",
                                       IF ok THEN "pass" ELSE "FAIL")
                  /\ ret' = PyBool(ok)
    /\ UNCHANGED nonAuditorVars

report ==
    /\ call' = [op |-> "report"]
    /\ ret' = [type |-> "dict",
               total |-> Cardinality(snapshots),
               verified |-> Cardinality({ r \in snapshots : r.verified # 0 }),
               unverified |-> Cardinality({ r \in snapshots : r.verified = 0 }),
               snapshots |-> snapshots]
    /\ UNCHANGED <<catalogVars, nonCatalogVars>>

InitAuditor ==
    /\ snapshots = init_db_snapshots
    /\ audit_log = init_db_audit_log
    /\ ncalls = 0
    /\ versions = get_db_versions
    /\ seq = get_db_seq
    /\ now = 0
    /\ superseded_by = [ i \in 1..MaxDeploys |-> 0 ]
    /\ rolled_back = {}
    /\ TxnIdle
    /\ DirIdle
    /\ PkgIdle
    /\ call = NoCall
    /\ ret = None

NextAuditor ==
    \/ \E id \in SnapshotIds, d \in DeclaredDigests, v \in BOOLEAN :
         register(Snapshot(id, d, v))
    \/ \E id \in SnapshotIds, data \in Data : verify(id, data)
    \/ report

SpecAuditor == InitAuditor /\ [][NextAuditor]_vars

(***************************************************************************)
(* Claims about the audit ledger.                                          *)
(***************************************************************************)
Registered(rows, id) == \E r \in rows : r.id = id
Verified(rows, id) == \E r \in rows : r.id = id /\ r.verified # 0

\* C7: for a registered id, verify(id, data) returns whether the digest of
\* data equals the registered digest, stores that boolean as the verified
\* flag, and appends exactly one entry verify/pass or verify/fail.
C7_VerifyRegistered ==
    [][\A id \in SnapshotIds, data \in Data :
         (verify(id, data) /\ Registered(snapshots, id)) =>
            \E row \in snapshots :
              /\ row.id = id
              /\ LET ok == Sha256Hex(data) = row.sha256
                 IN  /\ ret' = PyBool(ok)
                     /\ [row EXCEPT !.verified = BoolToInt(ok)] \in snapshots'
                     /\ Len(audit_log') = Len(audit_log) + 1
                     /\ audit_log'[Len(audit_log')].snapshot_id = id
                     /\ audit_log'[Len(audit_log')].action = "verify"
                     /\ audit_log'[Len(audit_log')].result =
                          (IF ok THEN "pass" ELSE "fail")]_vars

\* C8: a row's verified flag turns true only in a verify call of that id
\* whose data matched the registered digest.
C8_VerifiedOnlyByVerify ==
    [][\A id \in SnapshotIds :
         (Verified(snapshots', id) /\ ~Verified(snapshots, id)) =>
            \E data \in Data :
              /\ verify(id, data)
              /\ ret' = PyBool(TRUE)
              /\ \E row \in snapshots : row.id = id /\ row.sha256 = Sha256Hex(data)]_vars

\* C9: the audit log is append-only: no step shortens it or changes an entry
\* already written; register appends exactly one register/ok entry and verify
\* of a registered id exactly one verify entry, after all earlier entries.
C9_LogAppendOnly ==
    [][/\ Len(audit_log') >= Len(audit_log)
       /\ SubSeq(audit_log', 1, Len(audit_log)) = audit_log
       /\ \A id \in SnapshotIds, d \in DeclaredDigests, v \in BOOLEAN :
            register(Snapshot(id, d, v)) =>
              /\ Len(audit_log') = Len(audit_log) + 1
              /\ audit_log'[Len(audit_log')].snapshot_id = id
              /\ audit_log'[Len(audit_log')].action = "register"
              /\ audit_log'[Len(audit_log')].result = "ok"
       /\ \A id \in SnapshotIds, data \in Data :
            (verify(id, data) /\ Registered(snapshots, id)) =>
              /\ Len(audit_log') = Len(audit_log) + 1
              /\ audit_log'[Len(audit_log')].snapshot_id = id
              /\ audit_log'[Len(audit_log')].action = "verify"
       /\ report => audit_log' = audit_log]_vars

\* A report was made over a log that holds a register entry and, after it, a
\* verify entry.
C9_Witness ==
    /\ call.op = "report"
    /\ \E i, j \in 1..Len(audit_log) :
         /\ i < j
         /\ audit_log[i].action = "register"
         /\ audit_log[j].action = "verify"

\* C10: verify of an id that was never registered returns False, and neither
\* the snapshots nor the audit log change.
C10_VerifyUnregistered ==
    [][\A id \in SnapshotIds, data \in Data :
         (verify(id, data) /\ ~Registered(snapshots, id)) =>
            /\ ret' = PyBool(FALSE)
            /\ snapshots' = snapshots
            /\ audit_log' = audit_log]_vars

\* verify of an unregistered id has returned False while another id is
\* registered.
C10_Witness ==
    /\ call.op = "verify"
    /\ ret = PyBool(FALSE)
    /\ ~Registered(snapshots, call.snapshot_id)
    /\ snapshots # {}


(***************************************************************************)
(* src/snapshot.py: the directory manifest and its verification.           *)
(***************************************************************************)
Targets == { <<"repo">>, <<"repo", ".git">> }

IsPrefix(a, b) == Len(a) <= Len(b) /\ SubSeq(b, 1, Len(a)) = a
Ancestors(path) == { SubSeq(path, 1, n) : n \in 1..(Len(path) - 1) }

\* st_size of a file with the given content.
Size(content) ==
    CASE content = "hello" -> 5
      [] content = "world" -> 5
      [] content = "0123456789" -> 10

\* sha256_file: the file is read in 64 KiB chunks; the digest is that of the
\* whole content.
sha256_file(content) == Sha256Hex(content)

\* Path.exists(), Path.is_file()
Exists(fs, ds, path) == (path \in FilePaths /\ fs[path].present) \/ path \in ds
IsFile(fs, path) == path \in FilePaths /\ fs[path].present

\* Mutant of RelativeTo: path.name, the last part alone.
RelativeTo_Name(path, target) == << path[Len(path)] >>

\* path.relative_to(target), and target / rel
RelativeTo(path, target) == SubSeq(path, Len(target) + 1, Len(path))
Join(target, rel) == target \o rel

\* Mutant of NoGitPart: paths under .git are not left out.
NoGitPart_Always(path) == TRUE

\* ".git" not in path.parts: the parts are those of the whole path, the
\* target's own parts included.
NoGitPart(path) == \A i \in 1..Len(path) : path[i] # ".git"

\* Mutant of RGlobFiles: glob("*"), the target's own entries only.
RGlobFiles_Glob(fs, ds, target) ==
    SelectSeq(SortedPaths,
              LAMBDA p : /\ target \in ds
                         /\ Len(p) = Len(target) + 1
                         /\ IsPrefix(target, p)
                         /\ IsFile(fs, p))

\* sorted(target.rglob("*")), the entries that are files.  rglob of a
\* directory that does not exist yields nothing.
RGlobFiles(fs, ds, target) ==
    SelectSeq(SortedPaths,
              LAMBDA p : /\ target \in ds
                         /\ Len(p) > Len(target)
                         /\ IsPrefix(target, p)
                         /\ IsFile(fs, p))

\* The loop of snapshot_directory over the sorted paths.  An unreadable file
\* makes sha256_file raise PermissionError, which nothing catches.
RECURSIVE BuildLoop(_, _, _, _)
BuildLoop(fs, target, paths, manifest) ==
    IF paths = << >>
    THEN manifest
    ELSE LET path == Head(paths)
         IN  IF IsFile(fs, path) /\ NoGitPart(path)
             THEN IF ~fs[path].readable
                  THEN Raise("PermissionError")
                  ELSE LET size == Size(fs[path].content)
                           entry == [path |-> RelativeTo(path, target),
                                     sha256 |-> sha256_file(fs[path].content),
                                     size |-> size]
                       IN  BuildLoop(fs, target, Tail(paths),
                                     [manifest EXCEPT
                                        !.files = Append(@, entry),
                                        !.total_size = @ + size,
                                        !.file_count = @ + 1])
             ELSE BuildLoop(fs, target, Tail(paths), manifest)

snapshot_directory(fs, ds, target) ==
    IF ~Exists(fs, ds, target)
    THEN Raise("FileNotFoundError")
    ELSE BuildLoop(fs, target, RGlobFiles(fs, ds, target),
                   [type |-> "manifest", label |-> target[Len(target)],
                    source |-> target, files |-> << >>,
                    total_size |-> 0, file_count |-> 0])

\* save_snapshot writes json.dumps(manifest); verify_snapshot reads it back
\* with json.load: strings and integers under string keys, in the same order.
save_snapshot(manifest) ==
    [type |-> "manifest", label |-> manifest.label, source |-> manifest.source,
     files |-> manifest.files, total_size |-> manifest.total_size,
     file_count |-> manifest.file_count]

Diff(kind, rel) == [kind |-> kind, path |-> rel]
ManifestPaths(manifest) ==
    { manifest.files[i].path : i \in 1..Len(manifest.files) }

\* Mutant of ContentChanged: the sizes are compared, not the digests.
ContentChanged_BySize(content, entry) == Size(content) # entry.size

\* current != info["sha256"]
ContentChanged(content, entry) == sha256_file(content) # entry.sha256

\* The first loop of verify_snapshot, over the manifest entries.
RECURSIVE CheckLoop(_, _, _, _, _)
CheckLoop(fs, ds, target, entries, diffs) ==
    IF entries = << >>
    THEN [type |-> "diffs", diffs |-> diffs]
    ELSE LET rel == Head(entries).path
             path == Join(target, rel)
         IN  IF ~Exists(fs, ds, path)
             THEN CheckLoop(fs, ds, target, Tail(entries),
                            Append(diffs, Diff("MISSING", rel)))
             ELSE IF ~IsFile(fs, path)
             THEN Raise("IsADirectoryError")
             ELSE IF ~fs[path].readable
             THEN Raise("PermissionError")
             ELSE IF ContentChanged(fs[path].content, Head(entries))
             THEN CheckLoop(fs, ds, target, Tail(entries),
                            Append(diffs, Diff("CHANGED", rel)))
             ELSE CheckLoop(fs, ds, target, Tail(entries), diffs)

\* The second loop of verify_snapshot, over the live tree.
RECURSIVE AddedLoop(_, _, _, _)
AddedLoop(target, paths, manifest, diffs) ==
    IF paths = << >>
    THEN diffs
    ELSE LET path == Head(paths)
             rel == RelativeTo(path, target)
         IN  IF NoGitPart(path) /\ rel \notin ManifestPaths(manifest)
             THEN AddedLoop(target, Tail(paths), manifest,
                            Append(diffs, Diff("ADDED", rel)))
             ELSE AddedLoop(target, Tail(paths), manifest, diffs)

verify_snapshot(saved, fs, ds, target) ==
    IF saved = NoManifest
    THEN Raise("FileNotFoundError")
    ELSE LET first == CheckLoop(fs, ds, target, saved.files, << >>)
         IN  IF first.type = "raise"
             THEN first
             ELSE LET diffs == AddedLoop(target, RGlobFiles(fs, ds, target),
                                         saved, first.diffs)
                  IN  [type |-> "tuple", match |-> (Len(diffs) = 0),
                       diffs |-> diffs]

\* main, "create": snapshot_directory, then save_snapshot.
main_create(target) ==
    /\ call' = [op |-> "create", target |-> target]
    /\ LET manifest == snapshot_directory(files, dirs, target)
       IN  /\ ret' = manifest
           /\ IF manifest.type = "raise"
              THEN UNCHANGED <<manifest_file, built>>
              ELSE /\ manifest_file' = save_snapshot(manifest)
                   /\ built' = [type |-> "built", files |-> files, dirs |-> dirs,
                                target |-> target]
    /\ UNCHANGED <<files, dirs, fs_ops, nonDirVars>>

\* main, "verify": verify_snapshot of the saved manifest against a directory.
main_verify(target) ==
    /\ call' = [op |-> "verify", target |-> target]
    /\ ret' = verify_snapshot(manifest_file, files, dirs, target)
    /\ UNCHANGED <<dirVars, nonDirVars>>

\* Other programs change the tree: a file is written (its directories made as
\* needed), a file is removed, a directory is made or removed with all below
\* it, a file's read permission is changed.
write_file(path, content) ==
    /\ fs_ops < MaxFsOps
    /\ files[path] # File(content, TRUE)
    /\ files' = [files EXCEPT ![path] = File(content, TRUE)]
    /\ dirs' = dirs \cup Ancestors(path)
    /\ fs_ops' = fs_ops + 1
    /\ UNCHANGED <<manifest_file, built, nonDirVars, call, ret>>

unlink(path) ==
    /\ fs_ops < MaxFsOps
    /\ files[path].present
    /\ files' = [files EXCEPT ![path] = Absent]
    /\ fs_ops' = fs_ops + 1
    /\ UNCHANGED <<dirs, manifest_file, built, nonDirVars, call, ret>>

mkdir(dir) ==
    /\ fs_ops < MaxFsOps
    /\ dir \notin dirs
    /\ dirs' = dirs \cup {dir} \cup Ancestors(dir)
    /\ fs_ops' = fs_ops + 1
    /\ UNCHANGED <<files, manifest_file, built, nonDirVars, call, ret>>

rmtree(dir) ==
    /\ fs_ops < MaxFsOps
    /\ dir \in dirs
    /\ dirs' = { d \in dirs : ~IsPrefix(dir, d) }
    /\ files' = [ p \in FilePaths |-> IF IsPrefix(dir, p) THEN Absent ELSE files[p] ]
    /\ fs_ops' = fs_ops + 1
    /\ UNCHANGED <<manifest_file, built, nonDirVars, call, ret>>

chmod(path, readable) ==
    /\ fs_ops < MaxFsOps
    /\ files[path].present
    /\ files[path].readable # readable
    /\ files' = [files EXCEPT ![path].readable = readable]
    /\ fs_ops' = fs_ops + 1
    /\ UNCHANGED <<dirs, manifest_file, built, nonDirVars, call, ret>>

InitDirectory ==
    /\ \/ files = EmptyTree /\ dirs = {}
       \/ files = SampleTree /\ dirs = SampleDirs
    /\ manifest_file = NoManifest
    /\ built = NoManifest
    /\ fs_ops = 0
    /\ versions = get_db_versions
    /\ seq = get_db_seq
    /\ now = 0
    /\ superseded_by = [ i \in 1..MaxDeploys |-> 0 ]
    /\ rolled_back = {}
    /\ snapshots = init_db_snapshots
    /\ audit_log = init_db_audit_log
    /\ ncalls = 0
    /\ TxnIdle
    /\ PkgIdle
    /\ call = NoCall
    /\ ret = None

NextDirectory ==
    \/ \E t \in Targets : main_create(t)
    \/ \E t \in Targets : main_verify(t)
    \/ \E p \in FilePaths, c \in Contents : write_file(p, c)
    \/ \E p \in FilePaths : unlink(p)
    \/ \E d \in Directories : mkdir(d)
    \/ \E d \in Directories : rmtree(d)
    \/ \E p \in FilePaths, r \in BOOLEAN : chmod(p, r)

SpecDirectory == InitDirectory /\ [][NextDirectory]_vars


(***************************************************************************)
(* Claims about the directory manifest.                                    *)
(***************************************************************************)
\* The entries of a difference list that name a path.
DiffsOf(diffs, rel) == SelectSeq(diffs, LAMBDA d : d.path = rel)

\* The files that were under the target when the manifest was built.
BuiltPaths ==
    { p \in FilePaths : /\ built.files[p].present
                        /\ IsPrefix(built.target, p) }

\* verify_snapshot of the saved manifest against the directory it was built
\* from, as that directory is now.
VerifyBuilt == verify_snapshot(manifest_file, files, dirs, built.target)

\* What C11 says of a file that the manifest was built over.
C11_Reported(p, result) ==
    LET rel == RelativeTo(p, built.target)
    IN  /\ ~files[p].present
            => DiffsOf(result.diffs, rel) = << Diff("MISSING", rel) >>
        /\ (files[p].present /\ files[p].content # built.files[p].content)
            => DiffsOf(result.diffs, rel) = << Diff("CHANGED", rel) >>

\* No path has more than one entry in a difference list.
OneEntryPerPath(diffs) ==
    \A i, j \in 1..Len(diffs) : diffs[i].path = diffs[j].path => i = j

\* C11: for every file that was in the directory when the manifest was built,
\* verify_snapshot reports exactly MISSING once it is deleted and exactly
\* CHANGED once its content differs; no path has two entries.
C11_EveryFileReported ==
    built # NoManifest =>
        (VerifyBuilt.type = "tuple" =>
            /\ \A p \in BuiltPaths : C11_Reported(p, VerifyBuilt)
            /\ OneEntryPerPath(VerifyBuilt.diffs))

\* C11, amended: the same, for every file recorded in the manifest.
C11_ManifestFilesReported ==
    built # NoManifest =>
        (VerifyBuilt.type = "tuple" =>
            /\ \A p \in BuiltPaths :
                 RelativeTo(p, built.target) \in ManifestPaths(manifest_file)
                    => C11_Reported(p, VerifyBuilt)
            /\ OneEntryPerPath(VerifyBuilt.diffs))

\* A verification has reported a deleted file and a file whose content
\* changed to another content of the same size.
C11_Witness ==
    /\ call.op = "verify"
    /\ built # NoManifest
    /\ call.target = built.target
    /\ ret = VerifyBuilt
    /\ ret.type = "tuple"
    /\ \E i, j \in 1..Len(ret.diffs) :
         /\ ret.diffs[i].kind = "MISSING"
         /\ ret.diffs[j].kind = "CHANGED"
         /\ LET p == Join(built.target, ret.diffs[j].path)
            IN  Size(files[p].content) = Size(built.files[p].content)

\* The files created under the target since the manifest was built.
CreatedPaths ==
    { p \in FilePaths : /\ files[p].present
                        /\ ~built.files[p].present
                        /\ IsPrefix(built.target, p) }

\* C12: every file created in the directory after the manifest was built, at
\* any relative path, is reported ADDED, and the result is a non-match.
C12_EveryCreatedFileAdded ==
    built # NoManifest =>
        (VerifyBuilt.type = "tuple" =>
            \A p \in CreatedPaths :
              /\ DiffsOf(VerifyBuilt.diffs, RelativeTo(p, built.target))
                   = << Diff("ADDED", RelativeTo(p, built.target)) >>
              /\ ~VerifyBuilt.match)

\* C12, amended: the same, for the created files whose path, the target's
\* own parts included, has no .git part.
C12_CreatedFileOutsideGitAdded ==
    built # NoManifest =>
        (VerifyBuilt.type = "tuple" =>
            \A p \in CreatedPaths :
              NoGitPart(p) =>
                /\ DiffsOf(VerifyBuilt.diffs, RelativeTo(p, built.target))
                     = << Diff("ADDED", RelativeTo(p, built.target)) >>
                /\ ~VerifyBuilt.match)

\* A verification has reported a file created two directories down.
C12_Witness ==
    /\ call.op = "verify"
    /\ built # NoManifest
    /\ call.target = built.target
    /\ ret = VerifyBuilt
    /\ ret.type = "tuple"
    /\ ~ret.match
    /\ \E i \in 1..Len(ret.diffs) :
         ret.diffs[i] = Diff("ADDED", <<"b", "d", "n.txt">>)

\* C13: a directory that has not changed since its manifest was built
\* verifies as (match, no differences), the empty directory included.
C13_UnchangedVerifies ==
    (built # NoManifest /\ files = built.files /\ dirs = built.dirs) =>
        VerifyBuilt = [type |-> "tuple", match |-> TRUE, diffs |-> << >>]

\* An unchanged directory with a file in a subdirectory has been verified.
C13_Witness ==
    /\ call.op = "verify"
    /\ built # NoManifest
    /\ call.target = built.target
    /\ files = built.files
    /\ dirs = built.dirs
    /\ ret = [type |-> "tuple", match |-> TRUE, diffs |-> << >>]
    /\ \E i \in 1..Len(manifest_file.files) : Len(manifest_file.files[i].path) > 1

RECURSIVE SumSizes(_)
SumSizes(entries) ==
    IF entries = << >> THEN 0 ELSE Head(entries).size + SumSizes(Tail(entries))

\* C14: a manifest's total_size is the sum of its entries' sizes, file_count
\* their number, and the entries are exactly the files under the root whose
\* path relative to the root has no .git part.
C14_ManifestContent ==
    [][\A t \in Targets :
         (main_create(t) /\ ret'.type = "manifest") =>
            /\ ret'.total_size = SumSizes(ret'.files)
            /\ ret'.file_count = Len(ret'.files)
            /\ ManifestPaths(ret') =
                 { RelativeTo(p, t) :
                     p \in { q \in FilePaths : /\ files[q].present
                                               /\ IsPrefix(t, q)
                                               /\ NoGitPart(RelativeTo(q, t)) } }]_vars

\* C15: a file that cannot be read is skipped, and snapshot_directory still
\* returns a manifest with every other readable file.
C15_UnreadableFileSkipped ==
    [][\A t \in Targets :
         (main_create(t) /\ t \in dirs) =>
            /\ ret'.type = "manifest"
            /\ \A p \in FilePaths :
                 (files[p].present /\ IsPrefix(t, p) /\ NoGitPart(p)) =>
                    (RelativeTo(p, t) \in ManifestPaths(ret') <=> files[p].readable)]_vars

\* C17: verify_snapshot of a target directory that does not exist fails with
\* a not-found error; it returns no (match, differences) result.
C17_MissingTargetFails ==
    [][\A t \in Targets :
         (main_verify(t) /\ ~Exists(files, dirs, t)) =>
            ret' = Raise("FileNotFoundError")]_vars


(***************************************************************************)
(* src/src/snapshot.py                                                     *)
(*                                                                         *)
(* create_snapshot runs one step at a time, so that another process can    *)
(* change a file between sha256_file, stat and tar.add.  A file name is    *)
(* the sequence of its dot-separated components, and a component the       *)
(* sequence of its dash-separated words.  tar.add is one read of the file; *)
(* the archive's size stands for st_size of the compressed file.  The      *)
(* manifests of earlier snapshots, which the pattern **/*.json also        *)
(* matches, are left out of home.                                          *)
(***************************************************************************)
\* snap_name = f"blackroad-snap-{ts}-{label}", ts the clock in whole seconds
SnapName(ts, label) == << "blackroad", "snap", ts, label >>

\* ARCHIVE_DIR / f"{snap_name}.tar.gz"
SnapPath(snap_name) == << snap_name, <<"tar">>, <<"gz">> >>

\* f"{name}-manifest.json", name a sequence of components
ManifestName(name) ==
    SubSeq(name, 1, Len(name) - 1)
        \o << Append(name[Len(name)], "manifest"), <<"json">> >>

\* Path.stem: the name without its last suffix
Stem(name) == IF Len(name) > 1 THEN SubSeq(name, 1, Len(name) - 1) ELSE name

\* Path.write_text and tarfile.open(..., "w:gz"): the file is replaced
WriteFile(dir, file) == { g \in dir : g.name # file.name } \cup { file }

TarFile(name, members) == [name |-> name, kind |-> "tar", members |-> members]
JsonFile(name, meta) == [name |-> name, kind |-> "json", meta |-> meta]

\* sorted(set(files)) of the files the patterns match
collect_files(fs) == SelectSeq(PkgSortedPaths, LAMBDA p : fs[p].present)

RECURSIVE TarSize(_)
TarSize(members) ==
    IF members = << >> THEN 0
    ELSE Size(Head(members).bytes) + TarSize(Tail(members))

\* The archive being written by the call in progress.
CurrentTar == CHOOSE g \in archive_dir : g.name = SnapPath(pkg.snap_name)

\* The loop moves to the next file, or leaves the with block.
NextFile(p) ==
    [p EXCEPT !.files = Tail(p.files),
              !.pc = IF Tail(p.files) = << >> THEN "write" ELSE "hash"]

\* create_snapshot, up to the loop
create_begin(label) ==
    /\ pkg = NotRunning
    /\ nsnaps < MaxSnaps
    /\ nsnaps' = nsnaps + 1
    /\ LET snap_name == SnapName(now, label)
           found == collect_files(home)
       IN  /\ archive_dir' = WriteFile(archive_dir, TarFile(SnapPath(snap_name), << >>))
           /\ pkg' = [pc |-> IF found = << >> THEN "write" ELSE "hash",
                      snap_name |-> snap_name,
                      files |-> found,
                      checksum |-> "",
                      size |-> 0,
                      manifest |-> [label |-> label, files |-> << >>, total_bytes |-> 0]]
    /\ call' = [op |-> "create_snapshot", label |-> label]
    /\ UNCHANGED <<home, edits, nonPkgVars, ret>>

\* checksum = sha256_file(f); an OSError skips the file
step_hash ==
    /\ pkg.pc = "hash"
    /\ LET f == home[Head(pkg.files)]
       IN  pkg' = IF f.present /\ f.readable
                  THEN [pkg EXCEPT !.checksum = Sha256Hex(f.content), !.pc = "stat"]
                  ELSE NextFile(pkg)
    /\ UNCHANGED <<home, archive_dir, edits, nsnaps, nonPkgVars, call, ret>>

\* size = f.stat().st_size; an OSError skips the file
step_stat ==
    /\ pkg.pc = "stat"
    /\ LET f == home[Head(pkg.files)]
       IN  pkg' = IF f.present
                  THEN [pkg EXCEPT !.size = Size(f.content), !.pc = "add"]
                  ELSE NextFile(pkg)
    /\ UNCHANGED <<home, archive_dir, edits, nsnaps, nonPkgVars, call, ret>>

\* tar.add(f, arcname=str(rel)) and the manifest entry; an OSError skips both
step_add ==
    /\ pkg.pc = "add"
    /\ LET rel == Head(pkg.files)
           f == home[rel]
       IN  IF f.present /\ f.readable
           THEN /\ archive_dir' =
                     WriteFile(archive_dir,
                               TarFile(CurrentTar.name,
                                       Append(CurrentTar.members,
                                              [path |-> rel, bytes |-> f.content])))
                /\ pkg' = NextFile(
                     [pkg EXCEPT !.manifest.files =
                                     Append(@, [path |-> rel,
                                                sha256 |-> pkg.checksum,
                                                size |-> pkg.size]),
                                 !.manifest.total_bytes = @ + pkg.size])
           ELSE /\ pkg' = NextFile(pkg)
                /\ UNCHANGED archive_dir
    /\ UNCHANGED <<home, edits, nsnaps, nonPkgVars, call, ret>>

\* manifest_path.write_text(...); return snap_path
create_finish ==
    /\ pkg.pc = "write"
    /\ archive_dir' = WriteFile(archive_dir,
                                JsonFile(ManifestName(<< pkg.snap_name >>), pkg.manifest))
    /\ pkg' = NotRunning
    /\ ret' = [type |-> "Path", name |-> SnapPath(pkg.snap_name)]
    /\ UNCHANGED <<home, edits, nsnaps, nonPkgVars, call>>

\* The archives in ARCHIVE_DIR, names sorted in reverse.
SortedArchives ==
    SelectSeq([ i \in 1..(MaxClock + 1) |->
                  SnapPath(SnapName(MaxClock + 1 - i, CHOOSE l \in Labels : TRUE)) ],
              LAMBDA n : \E g \in archive_dir : g.kind = "tar" /\ g.name = n)

\* One entry of list_snapshots: {"file", "size", **meta}
Entry(dir, f) ==
    LET manifest_path == ManifestName(Stem(f.name))
        size == TarSize(f.members)
    IN  IF \E g \in dir : g.name = manifest_path
        THEN LET meta == (CHOOSE g \in dir : g.name = manifest_path).meta
             IN  [file |-> f.name, size |-> size, label |-> meta.label,
                  files |-> meta.files, total_bytes |-> meta.total_bytes]
        ELSE [file |-> f.name, size |-> size, label |-> "unknown",
              files |-> << >>, total_bytes |-> size]

list_snapshots ==
    /\ call' = [op |-> "list_snapshots"]
    /\ ret' = [type |-> "list",
               items |-> [ i \in 1..Len(SortedArchives) |->
                            Entry(archive_dir,
                                  CHOOSE g \in archive_dir : g.name = SortedArchives[i]) ]]
    /\ UNCHANGED <<pkgVars, nonPkgVars>>

\* Another process writes, removes or protects a file under ~/.blackroad.
edit(path, value) ==
    /\ edits < MaxEdits
    /\ value # home[path]
    /\ home' = [home EXCEPT ![path] = value]
    /\ edits' = edits + 1
    /\ UNCHANGED <<archive_dir, pkg, nsnaps, nonPkgVars, call, ret>>

InitPackager ==
    /\ home \in {EmptyHome, SampleHome}
    /\ archive_dir = {}
    /\ pkg = NotRunning
    /\ edits = 0
    /\ nsnaps = 0
    /\ versions = get_db_versions
    /\ seq = get_db_seq
    /\ now = 0
    /\ superseded_by = [ i \in 1..MaxDeploys |-> 0 ]
    /\ rolled_back = {}
    /\ snapshots = init_db_snapshots
    /\ audit_log = init_db_audit_log
    /\ ncalls = 0
    /\ TxnIdle
    /\ DirIdle
    /\ call = NoCall
    /\ ret = None

NextPackager ==
    \/ \E l \in Labels : create_begin(l)
    \/ step_hash
    \/ step_stat
    \/ step_add
    \/ create_finish
    \/ list_snapshots
    \/ \E p \in PkgPaths, c \in Contents, r \in BOOLEAN : edit(p, File(c, r))
    \/ \E p \in PkgPaths : edit(p, Absent)
    \/ Tick

SpecPackager == InitPackager /\ [][NextPackager]_vars

(***************************************************************************)
(* Claims about the packaged snapshots.                                    *)
(***************************************************************************)
\* C16: every entry of the manifest create_snapshot writes records the digest
\* and the length of the bytes stored for that file in the archive, whatever
\* another process did to the file meanwhile.
C16_ManifestMatchesArchive ==
    [][create_finish =>
         \A i \in 1..Len(pkg.manifest.files) :
           LET e == pkg.manifest.files[i]
           IN  \E j \in 1..Len(CurrentTar.members) :
                 /\ CurrentTar.members[j].path = e.path
                 /\ Sha256Hex(CurrentTar.members[j].bytes) = e.sha256
                 /\ Size(CurrentTar.members[j].bytes) = e.size]_vars

\* The archives whose create_snapshot has returned.
WrittenArchives ==
    { g \in archive_dir :
        /\ g.kind = "tar"
        /\ pkg # NotRunning => g.name # SnapPath(pkg.snap_name) }

\* C20: list_snapshots lists every archive create_snapshot wrote with the
\* label, files and total_bytes of the manifest written for it.
C20_ListedWithManifest ==
    [][list_snapshots =>
         \A f \in WrittenArchives :
           \E i \in 1..Len(ret'.items), m \in archive_dir :
             /\ ret'.items[i].file = f.name
             /\ m.name = ManifestName(<< f.name[1] >>)
             /\ ret'.items[i].label = m.meta.label
             /\ ret'.items[i].files = m.meta.files
             /\ ret'.items[i].total_bytes = m.meta.total_bytes]_vars

=============================================================================
